---- MODULE Spec2Model ----
(***************************************************************************)
(* Worker matching, dispatch and the task acceptance life cycle of the     *)
(* household-task marketplace (tasks/views.py, tasks/forms.py,             *)
(* tasks/recommendations.py).                                              *)
(*                                                                         *)
(* The store is the Worker table (a function from primary key to row) and  *)
(* the Task table (a sequence, a row's primary key being its index).       *)
(* Money is counted in cents, time in seconds.  The stored strings are     *)
(* named, and Chars spells a name out as the sequence of its characters,   *)
(* so that substring search is computed.                                   *)
(***************************************************************************)
EXTENDS Integers, Sequences, FiniteSets, TLC

\* SQL NULL in the nullable columns (worker, request_id, rating, hourly_rate,
\* total_cost).
NULL == -1

\* The slice [:5] of the skill matcher and n=5 of the recommender call.
TopN == 5

\* Cap on the number of Task rows of a run of the life cycle.
MaxTasks == 3

\* Cap on the number of requests handled in a run of the life cycle.
MaxSteps == 4

\* Cap on the number of earlier rows drawn into the store of a dispatch.
MaxHistory == 2

\* Significant bits of a binary64 float.
FloatBits == 53

SecondsPerHour == 3600

(***************************************************************************)
(* Strings.                                                                *)
(***************************************************************************)
UpperChars == <<"A","B","C","D","E","F","G","H","I","J","K","L","M",
                "N","O","P","Q","R","S","T","U","V","W","X","Y","Z">>

LowerChars == <<"a","b","c","d","e","f","g","h","i","j","k","l","m",
                "n","o","p","q","r","s","t","u","v","w","x","y","z">>

\* str.lower() letter by letter.
LowerOf ==
    [c \in {UpperChars[i] : i \in 1..Len(UpperChars)} |->
        LowerChars[CHOOSE i \in 1..Len(UpperChars) : UpperChars[i] = c]]

Lower(c) == IF c \in DOMAIN LowerOf THEN LowerOf[c] ELSE c

\* A mutant of IContains: either string may contain the other.
IContainsEitherWay(hay, needle) ==
    \/ \E i \in 0..(Len(hay) - Len(needle)) :
          \A j \in 1..Len(needle) : Lower(hay[i + j]) = Lower(needle[j])
    \/ \E i \in 0..(Len(needle) - Len(hay)) :
          \A j \in 1..Len(hay) : Lower(needle[i + j]) = Lower(hay[j])

\* skills__icontains=query: the query occurs in the field, letter case ignored.
IContains(hay, needle) ==
    \E i \in 0..(Len(hay) - Len(needle)) :
        \A j \in 1..Len(needle) : Lower(hay[i + j]) = Lower(needle[j])

\* The characters of the strings of the model.
Chars(str) ==
    CASE str = "cleaning" -> <<"c","l","e","a","n","i","n","g">>
      [] str = "Cleaning" -> <<"C","l","e","a","n","i","n","g">>
      [] str = "cleaning, cooking" ->
            <<"c","l","e","a","n","i","n","g",","," ",
              "c","o","o","k","i","n","g">>
      [] str = "need cleaning help" ->
            <<"n","e","e","d"," ","c","l","e","a","n","i","n","g"," ",
              "h","e","l","p">>
      [] str = "COOKING" -> <<"C","O","O","K","I","N","G">>
      [] str = "plumbing" -> <<"p","l","u","m","b","i","n","g">>

(***************************************************************************)
(* The store.                                                              *)
(***************************************************************************)
VARIABLES
    workers,      \* Worker table: pk -> [skills, hourly_rate, is_available]
    tasks,        \* Task table: sequence of rows, pk = index
    nextRequest,  \* number of request identifiers generated so far
    steps,        \* number of requests handled so far
    reqs,         \* status updates in flight: request -> [pc, pk, user, ...]
    last,         \* the operation that led to this state, and its outcome
    everActive    \* history: the rows that have had an active status

vars == <<workers, tasks, nextRequest, steps, reqs, last, everActive>>

StatusRequested == "requested"
StatusInProgress == "in-progress"
StatusCompleted == "completed"
StatusRejected == "rejected"
StatusVanished == "vanished"

\* Task.STATUS_CHOICES
STATUS_CHOICES ==
    {StatusRequested, StatusInProgress, StatusCompleted, StatusRejected,
     StatusVanished}

Pks(T) == DOMAIN T

WorkerIds == DOMAIN workers

RECURSIVE SumOver(_, _)
SumOver(f, S) ==
    IF S = {} THEN 0
    ELSE LET x == CHOOSE y \in S : TRUE
         IN f[x] + SumOver(f, S \ {x})

Take(seq, n) == IF Len(seq) <= n THEN seq ELSE SubSeq(seq, 1, n)

SeqRange(seq) == {seq[i] : i \in DOMAIN seq}

(***************************************************************************)
(* Availability filter (TaskCreateView.form_valid).                        *)
(***************************************************************************)
\* Worker.objects.filter(is_available=True)
FlaggedAvailable(W) == {w \in DOMAIN W : W[w].is_available}

\* A mutant of ConflictingTasks: windows that touch count as overlapping.
ConflictingTasksTouching(W, T, start, end) ==
    {i \in Pks(T) : /\ T[i].worker \in FlaggedAvailable(W)
                    /\ T[i].status = StatusInProgress
                    /\ T[i].start_time <= end
                    /\ T[i].end_time >= start}

\* Task.objects.filter(worker__in=..., status="in-progress",
\*                     start_time__lt=end_time, end_time__gt=start_time)
ConflictingTasks(W, T, start, end) ==
    {i \in Pks(T) : /\ T[i].worker \in FlaggedAvailable(W)
                    /\ T[i].status = StatusInProgress
                    /\ T[i].start_time < end
                    /\ T[i].end_time > start}

\* available_workers.exclude(id__in=[task.worker.id for task in conflicting])
AvailableWorkers(W, T, start, end) ==
    FlaggedAvailable(W) \
        {T[i].worker : i \in ConflictingTasks(W, T, start, end)}

(***************************************************************************)
(* Ranking: annotate(rating=Avg(task__rating), tasks_completed=Count(...)) *)
(* .order_by("-tasks_completed", "-rating").                               *)
(***************************************************************************)
TasksOf(T, w) == {i \in Pks(T) : T[i].worker = w}

\* Count("task", filter=Q(task__status="completed"))
TasksCompleted(T, w) ==
    Cardinality({i \in TasksOf(T, w) : T[i].status = StatusCompleted})

\* Avg("task__rating") averages the non-NULL ratings of all the worker's
\* tasks; it is NULL when there is none.  Kept as sum and count.
RatedTasks(T, w) == {i \in TasksOf(T, w) : T[i].rating # NULL}

RatingSum(T, w) == SumOver([i \in Pks(T) |-> T[i].rating], RatedTasks(T, w))

RatingCount(T, w) == Cardinality(RatedTasks(T, w))

\* Where a NULL average sorts under ORDER BY rating DESC is the database's
\* choice (settings.py); the specification places it last.
NullAvgSortsLast == TRUE

\* a's average rating sorts strictly before b's under "-rating".
AvgBefore(T, a, b) ==
    IF RatingCount(T, a) = 0 /\ RatingCount(T, b) = 0 THEN FALSE
    ELSE IF RatingCount(T, a) = 0 THEN ~NullAvgSortsLast
    ELSE IF RatingCount(T, b) = 0 THEN NullAvgSortsLast
    ELSE RatingSum(T, a) * RatingCount(T, b)
             > RatingSum(T, b) * RatingCount(T, a)

\* A mutant of RankedBefore: the average rating is the first sort key.
RankedBeforeRatingFirst(T, a, b) ==
    \/ AvgBefore(T, a, b)
    \/ /\ ~AvgBefore(T, b, a)
       /\ TasksCompleted(T, a) > TasksCompleted(T, b)

\* A mutant of RankedBefore: order_by("-tasks_completed") alone.
RankedBeforeCountOnly(T, a, b) ==
    TasksCompleted(T, a) > TasksCompleted(T, b)

\* a sorts strictly before b under order_by("-tasks_completed", "-rating").
RankedBefore(T, a, b) ==
    \/ TasksCompleted(T, a) > TasksCompleted(T, b)
    \/ /\ TasksCompleted(T, a) = TasksCompleted(T, b)
       /\ AvgBefore(T, a, b)

\* Every order the database may return the rows of S in: rows with equal
\* sort keys come in any order.
RECURSIVE Rankings(_, _)
Rankings(T, S) ==
    IF S = {} THEN {<<>>}
    ELSE UNION {{<<x>> \o r : r \in Rankings(T, S \ {x})} :
                  x \in {y \in S : \A z \in S : ~RankedBefore(T, z, y)}}

(***************************************************************************)
(* Similarity recommender (pearson_correlation_coefficient).               *)
(***************************************************************************)
SetMin(S) == CHOOSE x \in S : \A y \in S : x <= y

\* Task.objects.filter(worker__id=w, status="completed")
CompletedOf(T, w) ==
    {i \in Pks(T) : T[i].worker = w /\ T[i].status = StatusCompleted}

\* ratings[task.customer.id] = task.rating over the completed tasks, newest
\* first (Task.Meta.ordering), so the oldest task of a customer is kept.
WorkerRatings(T, w) ==
    [c \in {T[i].customer : i \in CompletedOf(T, w)} |->
        T[SetMin({i \in CompletedOf(T, w) : T[i].customer = c})].rating]

SharedCustomers(rs, rc) == DOMAIN rs \cap DOMAIN rc

\* rating - sum(ratings.values()) / len(ratings) raises TypeError on None.
PearsonRaises(rs, rc) ==
    /\ SharedCustomers(rs, rc) # {}
    /\ \/ \E c \in DOMAIN rc : rc[c] = NULL
       \/ \E c \in SharedCustomers(rs, rc) : rs[c] = NULL

\* A mutant of SeedDeviation: the seed's rating less the seed's own mean, as
\* in the textbook coefficient, multiplied by the seed's number of ratings.
SeedDeviationOwnMean(rs, rc, c) ==
    Cardinality(DOMAIN rs) * rs[c] - SumOver(rs, DOMAIN rs)

\* The deviations from the candidate's mean, multiplied by len(ratings),
\* which keeps them integers: n * r - sum(ratings.values()).
SeedDeviation(rs, rc, c) ==
    Cardinality(DOMAIN rc) * rs[c] - SumOver(rc, DOMAIN rc)

CandidateDeviation(rs, rc, c) ==
    Cardinality(DOMAIN rc) * rc[c] - SumOver(rc, DOMAIN rc)

Numerator(rs, rc) ==
    SumOver([c \in SharedCustomers(rs, rc) |->
                SeedDeviation(rs, rc, c) * CandidateDeviation(rs, rc, c)],
            SharedCustomers(rs, rc))

\* A mutant of Denominator1: the seed's deviations summed without ** 2.
Denominator1Unsquared(rs, rc) ==
    SumOver([c \in SharedCustomers(rs, rc) |-> SeedDeviation(rs, rc, c)],
            SharedCustomers(rs, rc))

Denominator1(rs, rc) ==
    SumOver([c \in SharedCustomers(rs, rc) |->
                SeedDeviation(rs, rc, c) * SeedDeviation(rs, rc, c)],
            SharedCustomers(rs, rc))

Denominator2(rs, rc) ==
    SumOver([c \in SharedCustomers(rs, rc) |->
                CandidateDeviation(rs, rc, c) * CandidateDeviation(rs, rc, c)],
            SharedCustomers(rs, rc))

\* A mutant of Similarity: the quotient without the test for a zero term.
SimilarityUnchecked(rs, rc) ==
    [num |-> Numerator(rs, rc),
     den |-> Denominator1(rs, rc) * Denominator2(rs, rc)]

\* The similarity num / sqrt(den) as the pair [num, den], den > 0;
\* 0 is [num |-> 0, den |-> 1].
Similarity(rs, rc) ==
    IF Denominator1(rs, rc) = 0 \/ Denominator2(rs, rc) = 0
    THEN [num |-> 0, den |-> 1]
    ELSE [num |-> Numerator(rs, rc),
          den |-> Denominator1(rs, rc) * Denominator2(rs, rc)]

\* x.num / sqrt(x.den) > y.num / sqrt(y.den)
SimGreater(x, y) ==
    IF x.num >= 0 /\ y.num >= 0
    THEN x.num * x.num * y.den > y.num * y.num * x.den
    ELSE IF x.num < 0 /\ y.num < 0
    THEN x.num * x.num * y.den < y.num * y.num * x.den
    ELSE x.num >= 0

\* The candidates: every worker of the queryset but the seed.
Candidates(avail, seed) == avail \ {seed}

PearsonFails(T, avail, seed) ==
    \E w \in Candidates(avail, seed) :
        PearsonRaises(WorkerRatings(T, seed), WorkerRatings(T, w))

SimilarityOf(T, seed, w) ==
    Similarity(WorkerRatings(T, seed), WorkerRatings(T, w))

\* A mutant of SimilarBefore: sorted() without reverse=True.
SimilarBeforeAscending(T, seed, a, b) ==
    \/ SimGreater(SimilarityOf(T, seed, b), SimilarityOf(T, seed, a))
    \/ /\ ~SimGreater(SimilarityOf(T, seed, a), SimilarityOf(T, seed, b))
       /\ a < b

\* sorted(similarities.items(), key=..., reverse=True) is stable: equal
\* similarities keep the order of insertion, the queryset's order (by pk).
SimilarBefore(T, seed, a, b) ==
    \/ SimGreater(SimilarityOf(T, seed, a), SimilarityOf(T, seed, b))
    \/ /\ ~SimGreater(SimilarityOf(T, seed, b), SimilarityOf(T, seed, a))
       /\ a < b

RECURSIVE SimilarWorkers(_, _, _)
SimilarWorkers(T, seed, S) ==
    IF S = {} THEN <<>>
    ELSE LET x == CHOOSE y \in S :
                     \A z \in S \ {y} : SimilarBefore(T, seed, y, z)
         IN <<x>> \o SimilarWorkers(T, seed, S \ {x})

\* similar_workers[:n]
TopSimilarWorkers(T, avail, seed, n) ==
    Take(SimilarWorkers(T, seed, Candidates(avail, seed)), n)

(***************************************************************************)
(* total_cost = Decimal(seconds / 3600) * hourly_rate, stored in a column  *)
(* of two decimal places.                                                  *)
(***************************************************************************)
\* The sign of float(r / 3600) - r / 3600 for a remainder r < 3600, by long
\* division: k significant bits are out, the last one being lastBit.
RECURSIVE FloatErrFrom(_, _, _)
FloatErrFrom(r, k, lastBit) ==
    IF r = 0 THEN 0
    ELSE LET bit == IF 2 * r >= SecondsPerHour THEN 1 ELSE 0
             rest == 2 * r - bit * SecondsPerHour
         IN IF k = FloatBits
            THEN \* bit is the rounding bit, rest the sticky remainder
                 IF bit = 0 THEN -1
                 ELSE IF rest # 0 THEN 1
                 ELSE IF lastBit = 1 THEN 1 ELSE -1
            ELSE IF k = 0 /\ bit = 0
                 THEN FloatErrFrom(rest, 0, 0)
                 ELSE FloatErrFrom(rest, k + 1, bit)

RECURSIVE BitLength(_)
BitLength(q) == IF q = 0 THEN 0 ELSE 1 + BitLength(q \div 2)

\* The sign of the rounding error of the float division seconds / 3600.
FloatErrSign(seconds) ==
    FloatErrFrom(seconds % SecondsPerHour,
                 BitLength(seconds \div SecondsPerHour),
                 (seconds \div SecondsPerHour) % 2)

\* A mutant of StoredCosts: the product is cut to two decimals, not rounded.
StoredCostsTruncated(seconds, rate) ==
    {(seconds * rate) \div SecondsPerHour}

\* The values the total_cost column may hold, in cents, for a window of
\* `seconds` at `rate` cents per hour: the product rounded to the cent.  A
\* product that lies exactly on a half cent rounds to even in Django's
\* format_number and upwards in a NUMERIC(10,2) column.
StoredCosts(seconds, rate) ==
    LET n == seconds * rate
        q == n \div SecondsPerHour
        r == n % SecondsPerHour
        half == SecondsPerHour \div 2
    IN IF r < half THEN {q}
       ELSE IF r > half THEN {q + 1}
       ELSE IF FloatErrSign(seconds) > 0 THEN {q + 1}
       ELSE IF FloatErrSign(seconds) < 0 THEN {q}
       ELSE {q + (q % 2), q + 1}

(***************************************************************************)
(* The record of the last operation: what was asked and how it ended.  The *)
(* function views record the row and the user when they saved something.   *)
(***************************************************************************)
NoOp ==
    [op |-> "init", outcome |-> "", pk |-> 0, user |-> 0, posted |-> "",
     customer |-> 0, title |-> "",
     start |-> 0, end |-> 0, flagged |-> {}, avail |-> {}, matching |-> {},
     related |-> <<>>, request_id |-> NULL, before |-> 0, branch |-> "",
     seed |-> 0, similarities |-> <<>>, from_requested |-> FALSE]

(***************************************************************************)
(* Dispatch: TaskCreateView.form_valid.                                    *)
(***************************************************************************)
\* A mutant of MatchingWorkers: workers that are not available match too.
MatchingWorkersAnyWorker(W, avail, title) ==
    {w \in DOMAIN W : IContains(Chars(W[w].skills), Chars(title))}

\* available_workers.filter(skills__icontains=query)
MatchingWorkers(W, avail, title) ==
    {w \in avail : IContains(Chars(W[w].skills), Chars(title))}

\* The row saved for one related worker (lines 111-116).
NewRow(draft, W, w, rid) ==
    [request_id |-> rid, customer |-> draft.customer, worker |-> w,
     title |-> draft.title, description |-> draft.description,
     location |-> draft.location, start_time |-> draft.start,
     end_time |-> draft.end, status |-> StatusRequested, rating |-> NULL,
     hourly_rate |-> W[w].hourly_rate, total_cost |-> NULL]

\* The row that super().form_valid(form) saves when the loop saved none: the
\* form's instance still has no primary key, so form.save() inserts it.
DraftRow(draft) ==
    [request_id |-> NULL, customer |-> draft.customer, worker |-> NULL,
     title |-> draft.title, description |-> draft.description,
     location |-> draft.location, start_time |-> draft.start,
     end_time |-> draft.end, status |-> StatusRequested, rating |-> NULL,
     hourly_rate |-> NULL, total_cost |-> NULL]

\* The rows a call leaves behind: one per related worker, in order; after a
\* non-empty loop form.save() updates the last row with the same values.
RowsSaved(draft, W, related, rid) ==
    IF related = <<>> THEN <<DraftRow(draft)>>
    ELSE [i \in 1..Len(related) |-> NewRow(draft, W, related[i], rid)]

DispatchRecord(draft, branch, outcome, avail, matching, seed, related, rid) ==
    [NoOp EXCEPT !.op = "dispatch", !.outcome = outcome, !.branch = branch,
                 !.customer = draft.customer, !.title = draft.title,
                 !.start = draft.start, !.end = draft.end,
                 !.flagged = FlaggedAvailable(workers),
                 !.avail = avail, !.matching = matching, !.seed = seed,
                 !.related = related, !.request_id = rid,
                 !.before = Len(tasks)]

\* The loop over related_workers, the outcome message and the final save.
DispatchSave(draft, branch, avail, matching, seed, related) ==
    /\ tasks' = tasks \o RowsSaved(draft, workers, related, nextRequest + 1)
    /\ nextRequest' = nextRequest + 1
    /\ last' = DispatchRecord(draft, branch,
                              IF related = <<>> THEN "no_match" ELSE "created",
                              avail, matching, seed, related,
                              nextRequest + 1)
    /\ UNCHANGED <<workers, reqs>>
    /\ steps' = steps + 1

\* An exception leaves the handler before anything is saved.
DispatchRaise(draft, branch, avail, matching, seed) ==
    /\ last' = DispatchRecord(draft, branch, "error", avail, matching, seed,
                              <<>>, NULL)
    /\ UNCHANGED <<workers, tasks, nextRequest, reqs>>
    /\ steps' = steps + 1

\* matching_workers.exists(): the first five of the ranked matches.
DispatchMatched(draft) ==
    LET avail == AvailableWorkers(workers, tasks, draft.start, draft.end)
        matching == MatchingWorkers(workers, avail, draft.title)
    IN /\ matching # {}
       /\ \E r \in Rankings(tasks, matching) :
             DispatchSave(draft, "skill", avail, matching, 0,
                          Take(r, TopN))

\* No match and no available worker: top_worker is None, top_worker.id raises.
DispatchNoSeed(draft) ==
    LET avail == AvailableWorkers(workers, tasks, draft.start, draft.end)
        matching == MatchingWorkers(workers, avail, draft.title)
    IN /\ matching = {}
       /\ avail = {}
       /\ DispatchRaise(draft, "similar", avail, matching, 0)

\* No match: the recommender seeded with the first ranked available worker.
DispatchSimilar(draft) ==
    LET avail == AvailableWorkers(workers, tasks, draft.start, draft.end)
        matching == MatchingWorkers(workers, avail, draft.title)
    IN /\ matching = {}
       /\ avail # {}
       /\ \E r \in Rankings(tasks, avail) :
             IF PearsonFails(tasks, avail, r[1])
             THEN DispatchRaise(draft, "similar", avail, matching, r[1])
             ELSE DispatchSave(draft, "similar", avail, matching, r[1],
                               TopSimilarWorkers(tasks, avail, r[1], TopN))

Dispatch(draft) ==
    \/ DispatchMatched(draft)
    \/ DispatchNoSeed(draft)
    \/ DispatchSimilar(draft)

(***************************************************************************)
(* Status update: TaskUpdateView with TaskStatusUpdateForm.                *)
(***************************************************************************)
\* TaskStatusUpdateForm.STATUS_CHOICES
FORM_STATUS_CHOICES ==
    {StatusRequested, StatusInProgress, StatusCompleted, StatusRejected}

\* A mutant of valid_transitions: a completed row may be rejected.
valid_transitionsFromCompleted ==
    (StatusRequested :> {StatusInProgress, StatusRejected})
        @@ (StatusInProgress :> {StatusCompleted})
        @@ (StatusCompleted :> {StatusRejected})

\* valid_transitions of TaskStatusUpdateForm.__init__
valid_transitions ==
    (StatusRequested :> {StatusInProgress, StatusRejected})
        @@ (StatusInProgress :> {StatusCompleted})

\* valid_transitions[current_status] raises KeyError for the other statuses.
FormInitRaises(current_status) == current_status \notin DOMAIN valid_transitions

\* The choices of the status field once get_form is through.
FormChoices(current_status, from_requested) ==
    IF from_requested THEN {StatusInProgress, StatusRejected}
    ELSE IF current_status = StatusInProgress THEN {StatusCompleted}
    ELSE FORM_STATUS_CHOICES \cap valid_transitions[current_status]

Duration(row) == row.end_time - row.start_time

\* The instance as form_valid saves it on "in-progress" (lines 165-174).
AcceptedRow(row, W, u, cost) ==
    [row EXCEPT !.status = StatusInProgress, !.worker = u,
                !.hourly_rate = W[u].hourly_rate, !.total_cost = cost]

\* The values of total_cost the accepted row may be stored with.
AcceptCosts(row, W, u) == StoredCosts(Duration(row), W[u].hourly_rate)

\* Task.objects.filter(request_id=rid).exclude(id=pk).update(status="vanished");
\* request_id=None is the lookup IS NULL.
VanishSiblings(T, pk, rid) ==
    [i \in DOMAIN T |->
        IF i # pk /\ T[i].request_id = rid
        THEN [T[i] EXCEPT !.status = StatusVanished]
        ELSE T[i]]

UpdateRecord(pk, u, posted, from_requested, outcome) ==
    [NoOp EXCEPT !.op = "update", !.outcome = outcome, !.pk = pk,
                 !.user = u, !.posted = posted,
                 !.from_requested = from_requested]

\* The form is refused: KeyError in the form's __init__, or a posted status
\* that is not among the choices (the form is shown again).
UpdateRefused(pk, u, posted, from_requested) ==
    /\ IF FormInitRaises(tasks[pk].status) THEN TRUE
       ELSE posted \notin FormChoices(tasks[pk].status, from_requested)
    /\ last' = UpdateRecord(pk, u, posted, from_requested,
                            IF FormInitRaises(tasks[pk].status)
                            THEN "error" ELSE "invalid")
    /\ UNCHANGED <<workers, tasks, nextRequest, reqs>>
    /\ steps' = steps + 1

\* form_valid with status "in-progress".
UpdateAccept(pk, u, posted, from_requested) ==
    /\ ~FormInitRaises(tasks[pk].status)
    /\ posted \in FormChoices(tasks[pk].status, from_requested)
    /\ posted = StatusInProgress
    /\ \E cost \in AcceptCosts(tasks[pk], workers, u) :
          tasks' = VanishSiblings(
                       [tasks EXCEPT ![pk] = AcceptedRow(@, workers, u, cost)],
                       pk, tasks[pk].request_id)
    /\ last' = UpdateRecord(pk, u, posted, from_requested, "saved")
    /\ UNCHANGED <<workers, nextRequest, reqs>>
    /\ steps' = steps + 1

\* A mutant of UpdateOther: the row is saved with the worker's present
\* hourly rate.
UpdateOtherRefreshRate(pk, u, posted, from_requested) ==
    /\ ~FormInitRaises(tasks[pk].status)
    /\ posted \in FormChoices(tasks[pk].status, from_requested)
    /\ posted # StatusInProgress
    /\ tasks' = [tasks EXCEPT ![pk].status = posted,
                              ![pk].hourly_rate =
                                  IF tasks[pk].worker = NULL THEN @
                                  ELSE workers[tasks[pk].worker].hourly_rate]
    /\ last' = UpdateRecord(pk, u, posted, from_requested,
                            IF tasks[pk].worker = NULL
                            THEN "error_after_save" ELSE "saved")
    /\ UNCHANGED <<workers, nextRequest, reqs>>
    /\ steps' = steps + 1

\* form_valid with another status: the row is saved, then the notification
\* reads task.worker.user, which raises when the row has no worker.
UpdateOther(pk, u, posted, from_requested) ==
    /\ ~FormInitRaises(tasks[pk].status)
    /\ posted \in FormChoices(tasks[pk].status, from_requested)
    /\ posted # StatusInProgress
    /\ tasks' = [tasks EXCEPT ![pk].status = posted]
    /\ last' = UpdateRecord(pk, u, posted, from_requested,
                            IF tasks[pk].worker = NULL
                            THEN "error_after_save" ELSE "saved")
    /\ UNCHANGED <<workers, nextRequest, reqs>>
    /\ steps' = steps + 1

UpdateStatus(pk, u, posted, from_requested) ==
    \/ UpdateRefused(pk, u, posted, from_requested)
    \/ UpdateAccept(pk, u, posted, from_requested)
    \/ UpdateOther(pk, u, posted, from_requested)

(***************************************************************************)
(* The function views task_accept, task_reject, task_complete, task_rate.  *)
(***************************************************************************)
ViewRecord(op, pk, u, outcome) ==
    [NoOp EXCEPT !.op = op, !.outcome = outcome, !.pk = pk, !.user = u]

task_accept(pk, u) ==
    /\ IF tasks[pk].worker # NULL
       THEN /\ last' = ViewRecord("task_accept", 0, 0, "warning")
            /\ UNCHANGED tasks
       ELSE /\ tasks' = [tasks EXCEPT ![pk].worker = u,
                                       ![pk].status = StatusInProgress]
            /\ last' = ViewRecord("task_accept", pk, u, "saved")
    /\ UNCHANGED <<workers, nextRequest, reqs>>
    /\ steps' = steps + 1

task_reject(pk, u) ==
    /\ IF tasks[pk].worker # NULL
       THEN /\ tasks' = [tasks EXCEPT ![pk].worker = NULL,
                                       ![pk].status = StatusRequested]
            /\ last' = ViewRecord("task_reject", pk, 0, "saved")
       ELSE /\ last' = ViewRecord("task_reject", 0, 0, "warning")
            /\ UNCHANGED tasks
    /\ UNCHANGED <<workers, nextRequest, reqs>>
    /\ steps' = steps + 1

task_complete(pk, u) ==
    /\ IF tasks[pk].worker # NULL /\ tasks[pk].worker = u
       THEN /\ tasks' = [tasks EXCEPT ![pk].status = StatusCompleted]
            /\ last' = ViewRecord("task_complete", pk, u, "saved")
       ELSE /\ last' = ViewRecord("task_complete", 0, 0, "warning")
            /\ UNCHANGED tasks
    /\ UNCHANGED <<workers, nextRequest, reqs>>
    /\ steps' = steps + 1

\* POST by customer c with a rating.
task_rate(pk, c, rating) ==
    /\ IF tasks[pk].status = StatusCompleted /\ tasks[pk].customer = c
       THEN /\ tasks' = [tasks EXCEPT ![pk].rating = rating]
            /\ last' = [ViewRecord("task_rate", pk, 0, "saved")
                            EXCEPT !.customer = c]
       ELSE /\ last' = ViewRecord("task_rate", 0, 0, "warning")
            /\ UNCHANGED tasks
    /\ UNCHANGED <<workers, nextRequest, reqs>>
    /\ steps' = steps + 1

(***************************************************************************)
(* Profile changes: WorkerUpdateView and the rate approval of the admin.   *)
(***************************************************************************)
\* WorkerUpdateView.form_valid: skills and availability are saved, the
\* hourly rate is put back to the old one.
WorkerUpdate(w, skills, is_available) ==
    /\ workers' = [workers EXCEPT ![w].skills = skills,
                                  ![w].is_available = is_available]
    /\ steps' = steps + 1
    /\ last' = ViewRecord("worker_update", 0, w, "saved")
    /\ UNCHANGED <<tasks, nextRequest, reqs>>

\* HourlyRateApprovalAdmin.save_model with obj.approved.
ApproveHourlyRate(w, rate) ==
    /\ workers' = [workers EXCEPT ![w].hourly_rate = rate]
    /\ steps' = steps + 1
    /\ last' = ViewRecord("approve_rate", 0, w, "saved")
    /\ UNCHANGED <<tasks, nextRequest, reqs>>

(***************************************************************************)
(* A status update taken step by step, as a request that runs beside       *)
(* another one: the view reads the row and validates the form, saves the   *)
(* instance it read, on "in-progress" then updates the siblings, and saves *)
(* the instance once more.  Nothing in the view locks the rows or opens a  *)
(* transaction.                                                            *)
(***************************************************************************)
ReqIds == {1, 2}

IdleReq ==
    [pc |-> "idle", pk |-> 0, user |-> 0, posted |-> "", outcome |-> "",
     seen |-> "", inst |-> <<>>]

IdleReqs == [r \in ReqIds |-> IdleReq]

StepRecord(op) == [NoOp EXCEPT !.op = op]

\* get_object and the form: the row is read, the posted status validated.
ReqBegin(r, pk, u, posted, from_requested) ==
    LET row == tasks[pk]
        asked == [IdleReq EXCEPT !.pk = pk, !.user = u, !.posted = posted,
                                 !.seen = row.status]
    IN /\ reqs[r].pc = "idle"
       /\ reqs' = [reqs EXCEPT ![r] =
              IF FormInitRaises(row.status)
              THEN [asked EXCEPT !.pc = "done", !.outcome = "error"]
              ELSE IF posted \notin FormChoices(row.status, from_requested)
              THEN [asked EXCEPT !.pc = "done", !.outcome = "invalid"]
              ELSE [asked EXCEPT !.pc = "valid",
                                 !.inst = [row EXCEPT !.status = posted]]]
       /\ last' = StepRecord("req_begin")
       /\ UNCHANGED <<workers, tasks, nextRequest, steps>>

\* task.save(): every field of the instance read at the start is written.
\* Without a worker the notification that follows raises.
ReqSave(r) ==
    LET q == reqs[r]
    IN /\ q.pc = "valid"
       /\ IF q.posted = StatusInProgress
          THEN \E cost \in AcceptCosts(q.inst, workers, q.user) :
                  LET row == AcceptedRow(q.inst, workers, q.user, cost)
                  IN /\ tasks' = [tasks EXCEPT ![q.pk] = row]
                     /\ reqs' = [reqs EXCEPT ![r].pc = "saved",
                                             ![r].inst = row]
          ELSE /\ tasks' = [tasks EXCEPT ![q.pk] = q.inst]
               /\ reqs' = [reqs EXCEPT ![r] =
                      IF q.inst.worker = NULL
                      THEN [q EXCEPT !.pc = "done",
                                     !.outcome = "error_after_save"]
                      ELSE [q EXCEPT !.pc = "notified"]]
       /\ last' = StepRecord("req_save")
       /\ UNCHANGED <<workers, nextRequest, steps>>

\* The update of the siblings that follows the save on "in-progress".
ReqVanish(r) ==
    LET q == reqs[r]
    IN /\ q.pc = "saved"
       /\ tasks' = VanishSiblings(tasks, q.pk, q.inst.request_id)
       /\ reqs' = [reqs EXCEPT ![r].pc = "notified"]
       /\ last' = StepRecord("req_vanish")
       /\ UNCHANGED <<workers, nextRequest, steps>>

\* super().form_valid(form): form.save() writes the instance once more.
ReqSaveAgain(r) ==
    LET q == reqs[r]
    IN /\ q.pc = "notified"
       /\ tasks' = [tasks EXCEPT ![q.pk] = q.inst]
       /\ reqs' = [reqs EXCEPT ![r].pc = "done", ![r].outcome = "saved"]
       /\ last' = StepRecord("req_save_again")
       /\ UNCHANGED <<workers, nextRequest, steps>>

(***************************************************************************)
(* A dispatch taken step by step, as a request that runs beside others:    *)
(* the queries that select the candidates, one task.save() per candidate,  *)
(* then the form.save() of super().form_valid.  The view opens no          *)
(* transaction, so every save is visible as soon as it is made.            *)
(***************************************************************************)
DispatchId == 0

DispatchReq(pc, outcome, draft, W, related, rid, before, saved) ==
    [pc |-> pc, outcome |-> outcome, draft |-> draft, W |-> W,
     related |-> related, rid |-> rid, before |-> before, saved |-> saved]

\* The candidates are selected and the request identifier generated.
DispatchStart(draft, related) ==
    /\ reqs' = (DispatchId :> DispatchReq("loop", "", draft, workers, related,
                                          nextRequest + 1, Len(tasks), 0))
                   @@ reqs
    /\ nextRequest' = nextRequest + 1
    /\ last' = StepRecord("dispatch_begin")
    /\ UNCHANGED <<workers, tasks, steps>>

\* top_worker.id or the recommender raises: the request ends there.
DispatchStop(draft) ==
    /\ reqs' = (DispatchId :> DispatchReq("done", "error", draft, workers,
                                          <<>>, NULL, Len(tasks), 0))
                   @@ reqs
    /\ last' = StepRecord("dispatch_begin")
    /\ UNCHANGED <<workers, tasks, nextRequest, steps>>

DispatchBegin(draft) ==
    LET avail == AvailableWorkers(workers, tasks, draft.start, draft.end)
        matching == MatchingWorkers(workers, avail, draft.title)
    IN /\ DispatchId \notin DOMAIN reqs
       /\ \/ /\ matching # {}
             /\ \E r \in Rankings(tasks, matching) :
                   DispatchStart(draft, Take(r, TopN))
          \/ /\ matching = {}
             /\ avail = {}
             /\ DispatchStop(draft)
          \/ /\ matching = {}
             /\ avail # {}
             /\ \E r \in Rankings(tasks, avail) :
                   IF PearsonFails(tasks, avail, r[1])
                   THEN DispatchStop(draft)
                   ELSE DispatchStart(draft,
                            TopSimilarWorkers(tasks, avail, r[1], TopN))

\* One turn of the loop: task.save() inserts the row of the next candidate.
DispatchRow ==
    /\ DispatchId \in DOMAIN reqs
    /\ LET q == reqs[DispatchId]
       IN /\ q.pc = "loop"
          /\ q.saved < Len(q.related)
          /\ tasks' = Append(tasks, NewRow(q.draft, q.W,
                                           q.related[q.saved + 1], q.rid))
          /\ reqs' = [reqs EXCEPT ![DispatchId].saved = q.saved + 1]
    /\ last' = StepRecord("dispatch_row")
    /\ UNCHANGED <<workers, nextRequest, steps>>

\* super().form_valid(form): the instance is saved once more; it is the row
\* of the last candidate, or a new row when the loop saved none.
DispatchEnd ==
    /\ DispatchId \in DOMAIN reqs
    /\ LET q == reqs[DispatchId]
       IN /\ q.pc = "loop"
          /\ q.saved = Len(q.related)
          /\ tasks' = IF q.related = <<>>
                      THEN Append(tasks, DraftRow(q.draft))
                      ELSE [tasks EXCEPT ![q.before + q.saved] =
                               NewRow(q.draft, q.W, q.related[q.saved],
                                      q.rid)]
          /\ reqs' = [reqs EXCEPT ![DispatchId].pc = "done",
                                  ![DispatchId].outcome =
                                      IF q.related = <<>> THEN "no_match"
                                      ELSE "created"]
    /\ last' = StepRecord("dispatch_end")
    /\ UNCHANGED <<workers, nextRequest, steps>>

(***************************************************************************)
(* Inputs and stores of the specifications.                                *)
(***************************************************************************)
Customers == {1, 2}

\* Hourly rates in cents: 20.00 and 33.33.
Rates == {2000, 3333}

\* Window bounds in seconds: windows of 20 minutes, 100 minutes and 2 hours.
TimePoints == {0, 1200, 7200}

Windows == {win \in TimePoints \X TimePoints : win[1] < win[2]}

Titles == {"cleaning", "COOKING", "need cleaning help"}

DraftsOf(customers, titles, windows) ==
    {[customer |-> c, title |-> t, description |-> "flat",
      location |-> "ktm", start |-> win[1], end |-> win[2]] :
        c \in customers, t \in titles, win \in windows}

Posted == {StatusInProgress, StatusCompleted, StatusRejected}

WorkerRow(skills, rate, available) ==
    [skills |-> skills, hourly_rate |-> rate, is_available |-> available]

InitWorkers ==
    (1 :> WorkerRow("Cleaning", 2000, TRUE))
        @@ (2 :> WorkerRow("cleaning, cooking", 3333, TRUE))

\* The statuses of which a request group may reach one.
ActiveStatuses == {StatusInProgress, StatusCompleted, StatusRejected}

\* The history variable follows the store.
Observe ==
    everActive' = everActive \cup
        {pk \in DOMAIN tasks' : tasks'[pk].status \in ActiveStatuses}

InitStore(W, T) ==
    /\ workers = W
    /\ tasks = T
    /\ nextRequest = Len(T)
    /\ steps = 0
    /\ reqs = IdleReqs
    /\ last = NoOp
    /\ everActive = {pk \in DOMAIN T : T[pk].status \in ActiveStatuses}

(***************************************************************************)
(* The life-cycle specification: two workers, the requests of one          *)
(* customer, every handler, one request at a time.                         *)
(***************************************************************************)
Init == InitStore(InitWorkers, <<>>)

LifeStep(A) == steps < MaxSteps /\ A /\ Observe

LifeDrafts == DraftsOf({1}, Titles, {<<0, 1200>>, <<0, 7200>>})

LifeDispatch(A) ==
    LifeStep(Len(tasks) < MaxTasks /\ A /\ Len(tasks') <= MaxTasks)

Next ==
    \/ \E draft \in LifeDrafts : LifeDispatch(DispatchMatched(draft))
    \/ \E draft \in LifeDrafts : LifeDispatch(DispatchNoSeed(draft))
    \/ \E draft \in LifeDrafts : LifeDispatch(DispatchSimilar(draft))
    \/ \E pk \in DOMAIN tasks, u \in WorkerIds, posted \in Posted,
          f \in BOOLEAN : LifeStep(UpdateRefused(pk, u, posted, f))
    \/ \E pk \in DOMAIN tasks, u \in WorkerIds, posted \in Posted,
          f \in BOOLEAN : LifeStep(UpdateAccept(pk, u, posted, f))
    \/ \E pk \in DOMAIN tasks, u \in WorkerIds, posted \in Posted,
          f \in BOOLEAN : LifeStep(UpdateOther(pk, u, posted, f))
    \/ \E pk \in DOMAIN tasks, u \in WorkerIds : LifeStep(task_accept(pk, u))
    \/ \E pk \in DOMAIN tasks, u \in WorkerIds : LifeStep(task_reject(pk, u))
    \/ \E pk \in DOMAIN tasks, u \in WorkerIds : LifeStep(task_complete(pk, u))
    \/ \E pk \in DOMAIN tasks, c \in Customers :
          LifeStep(task_rate(pk, c, 5))
    \/ \E w \in WorkerIds, b \in BOOLEAN :
          LifeStep(WorkerUpdate(w, workers[w].skills, b))
    \/ \E w \in WorkerIds, r \in Rates : LifeStep(ApproveHourlyRate(w, r))

Spec == Init /\ [][Next]_vars

(***************************************************************************)
(* Stores for the dispatch: earlier rows of the workers.                   *)
(***************************************************************************)
\* An earlier row of worker w, accepted at w's rate when it went further
\* than requested.
HistoryRow(W, w, status, win, customer, rating) ==
    [request_id |-> 0, customer |-> customer, worker |-> w,
     title |-> "cleaning", description |-> "flat", location |-> "ktm",
     start_time |-> win[1], end_time |-> win[2], status |-> status,
     rating |-> rating, hourly_rate |-> W[w].hourly_rate,
     total_cost |-> IF status = StatusRequested THEN NULL
                    ELSE SetMin(StoredCosts(win[2] - win[1],
                                            W[w].hourly_rate))]

\* The sequences of at most n rows of rows.
RECURSIVE RowSeqs(_, _)
RowSeqs(rows, n) ==
    IF n = 0 THEN {<<>>}
    ELSE RowSeqs(rows, n - 1)
             \cup {Append(h, x) : h \in RowSeqs(rows, n - 1), x \in rows}

\* The rows of base followed by at most MaxHistory rows of rows, each row a
\* request of its own.
Histories(base, rows) ==
    LET numbered(h) == [i \in DOMAIN h |-> [h[i] EXCEPT !.request_id = i]]
    IN {numbered(base \o h) : h \in RowSeqs(rows, MaxHistory)}

OneStep(A) == last.op = "init" /\ A /\ Observe

(***************************************************************************)
(* The availability specification: one call of the dispatch with three     *)
(* workers flagged in any way and earlier rows in progress over any        *)
(* window, requested or completed.                                         *)
(***************************************************************************)
SmallWorkers(flagged) ==
    (1 :> WorkerRow("Cleaning", 2000, 1 \in flagged))
        @@ (2 :> WorkerRow("cleaning, cooking", 3333, 2 \in flagged))
        @@ (3 :> WorkerRow("plumbing", 2000, 3 \in flagged))

SmallRows ==
    LET W == SmallWorkers({})
    IN {HistoryRow(W, w, StatusInProgress, win, 1, NULL) :
            w \in DOMAIN W, win \in Windows}
           \cup {HistoryRow(W, w, StatusRequested, <<0, 7200>>, 1, NULL) :
                    w \in DOMAIN W}
           \cup {HistoryRow(W, w, StatusCompleted, <<0, 7200>>, 1, 5) :
                    w \in DOMAIN W}

SmallHistories == Histories(<<>>, SmallRows)

InitAvail ==
    \E flagged \in SUBSET {1, 2, 3}, h \in SmallHistories :
       InitStore(SmallWorkers(flagged), h)

AvailDrafts == DraftsOf({1}, Titles, {<<0, 1200>>, <<1200, 7200>>})

NextAvail ==
    \/ \E draft \in AvailDrafts : OneStep(DispatchMatched(draft))
    \/ \E draft \in AvailDrafts : OneStep(DispatchNoSeed(draft))
    \/ \E draft \in AvailDrafts : OneStep(DispatchSimilar(draft))

SpecAvail == InitAvail /\ [][NextAvail]_vars

(***************************************************************************)
(* The ranking specification: one call of the dispatch with six workers    *)
(* that can all match, seven completed rows that tell them apart and more  *)
(* completed rows of any worker and rating.                                *)
(***************************************************************************)
LargeWorkers(flagged) ==
    (1 :> WorkerRow("Cleaning", 2000, 1 \in flagged))
        @@ (2 :> WorkerRow("cleaning, cooking", 3333, TRUE))
        @@ (3 :> WorkerRow("cleaning", 2000, TRUE))
        @@ (4 :> WorkerRow("Cleaning", 3333, TRUE))
        @@ (5 :> WorkerRow("cleaning, cooking", 2000, TRUE))
        @@ (6 :> WorkerRow("cleaning", 3333, TRUE))

\* Completed rows that give the six workers different sort keys; the row
\* without a rating is of a customer no other worker served.
LargeBase ==
    LET W == LargeWorkers({})
    IN
    <<HistoryRow(W, 2, StatusCompleted, <<0, 7200>>, 1, 5),
      HistoryRow(W, 3, StatusCompleted, <<0, 7200>>, 1, 2),
      HistoryRow(W, 4, StatusCompleted, <<0, 7200>>, 3, NULL),
      HistoryRow(W, 5, StatusCompleted, <<0, 7200>>, 1, 5),
      HistoryRow(W, 5, StatusCompleted, <<0, 7200>>, 2, 2),
      HistoryRow(W, 6, StatusCompleted, <<0, 7200>>, 1, 2),
      HistoryRow(W, 6, StatusCompleted, <<0, 7200>>, 2, 2)>>

LargeRows ==
    LET W == LargeWorkers({})
    IN {HistoryRow(W, w, StatusCompleted, <<0, 7200>>, 1, r) :
            w \in DOMAIN W, r \in {NULL, 5}}

LargeHistories == Histories(LargeBase, LargeRows)

InitRank ==
    \E flagged \in {{}, {1}}, h \in LargeHistories :
       InitStore(LargeWorkers(flagged), h)

RankDrafts == DraftsOf({1}, Titles, {<<0, 7200>>})

NextRank ==
    \/ \E draft \in RankDrafts : OneStep(DispatchMatched(draft))
    \/ \E draft \in RankDrafts : OneStep(DispatchSimilar(draft))

SpecRank == InitRank /\ [][NextRank]_vars

(***************************************************************************)
(* The concurrency specification: one dispatch, then two status updates    *)
(* whose steps interleave freely.                                          *)
(***************************************************************************)
ConcDrafts == DraftsOf({1}, {"cleaning", "COOKING"}, {<<0, 7200>>})

ConcStep(A) == A /\ Observe

NextConc ==
    \/ \E draft \in ConcDrafts :
          ConcStep(tasks = <<>> /\ DispatchMatched(draft))
    \/ \E r \in ReqIds, pk \in DOMAIN tasks, u \in WorkerIds,
          posted \in Posted, f \in BOOLEAN :
          ConcStep(ReqBegin(r, pk, u, posted, f))
    \/ \E r \in ReqIds : ConcStep(ReqSave(r))
    \/ \E r \in ReqIds : ConcStep(ReqVanish(r))
    \/ \E r \in ReqIds : ConcStep(ReqSaveAgain(r))

SpecConc == Init /\ [][NextConc]_vars

(***************************************************************************)
(* The acceptance specification: one dispatch over windows of many         *)
(* lengths, possibly a change of a worker's rate, then one status update.  *)
(***************************************************************************)
\* Rates in cents from 0.01 to 33.33.
CostRates == {1, 5, 15, 1000, 2000, 3333}

\* Window bounds in seconds: from 6 minutes to 2 hours.
CostPoints == {0, 360, 1200, 1800, 7200}

CostDrafts ==
    DraftsOf({1}, {"cleaning"},
             {win \in CostPoints \X CostPoints : win[1] < win[2]})

InitCost ==
    \E r1 \in CostRates, r2 \in {2000, 3333} :
       InitStore((1 :> WorkerRow("Cleaning", r1, TRUE))
                     @@ (2 :> WorkerRow("cleaning, cooking", r2, TRUE)),
                 <<>>)

CostStep(A) == A /\ Observe

NextCost ==
    \/ \E draft \in CostDrafts :
          CostStep(tasks = <<>> /\ DispatchMatched(draft))
    \/ \E r \in CostRates :
          CostStep(last.op = "dispatch" /\ ApproveHourlyRate(1, r))
    \/ \E pk \in DOMAIN tasks, u \in WorkerIds, posted \in Posted,
          f \in BOOLEAN :
          CostStep(/\ last.op \in {"dispatch", "approve_rate"}
                   /\ UpdateRefused(pk, u, posted, f))
    \/ \E pk \in DOMAIN tasks, u \in WorkerIds, posted \in Posted,
          f \in BOOLEAN :
          CostStep(/\ last.op \in {"dispatch", "approve_rate"}
                   /\ UpdateAccept(pk, u, posted, f))
    \/ \E pk \in DOMAIN tasks, u \in WorkerIds, posted \in Posted,
          f \in BOOLEAN :
          CostStep(/\ last.op \in {"dispatch", "approve_rate"}
                   /\ UpdateOther(pk, u, posted, f))

SpecCost == InitCost /\ [][NextCost]_vars

(***************************************************************************)
(* Properties.                                                             *)
(***************************************************************************)
\* C1: in every request group (the rows sharing a request_id) at most one
\* row has ever had a status among in-progress, completed and rejected, and
\* while one row has such a status every other row of the group is vanished.
C1_GroupHasOneActiveOthersVanished ==
    \A i \in DOMAIN tasks, j \in DOMAIN tasks :
        (/\ i # j
         /\ tasks[i].request_id # NULL
         /\ tasks[i].request_id = tasks[j].request_id)
            => /\ ~(i \in everActive /\ j \in everActive)
               /\ tasks[i].status \in ActiveStatuses
                      => tasks[j].status = StatusVanished

\* C2: when the requests of two workers that accept two different rows of
\* one request group have both ended, whatever the order of their steps,
\* exactly one of the two rows is in-progress, and the other one is vanished
\* or its acceptance was refused.
C2_ConcurrentAcceptHasOneWinner ==
    LET a == reqs[1]
        b == reqs[2]
        refused(q) == q.outcome \in {"error", "invalid"}
        won(q, o) ==
            /\ tasks[q.pk].status = StatusInProgress
            /\ tasks[o.pk].status # StatusInProgress
            /\ tasks[o.pk].status = StatusVanished \/ refused(o)
    IN (/\ a.pc = "done" /\ b.pc = "done"
        /\ a.posted = StatusInProgress /\ b.posted = StatusInProgress
        /\ a.pk # b.pk
        /\ a.user # b.user
        /\ tasks[a.pk].request_id = tasks[b.pk].request_id)
           => won(a, b) \/ won(b, a)

\* C3: every row a dispatch call persisted carries the request identifier
\* generated in that call and has status requested.
C3_DispatchedRowsShareRequestId ==
    last.op = "dispatch" =>
        \A i \in (last.before + 1)..Len(tasks) :
            /\ tasks[i].request_id # NULL
            /\ tasks[i].request_id = last.request_id
            /\ tasks[i].status = StatusRequested

\* C4: a dispatch call that found no skill match and got an empty similarity
\* result reports "no match" and leaves the store with the rows it had.
C4_NoCandidateCreatesNoRow ==
    (/\ last.op = "dispatch"
     /\ last.outcome # "error"
     /\ last.matching = {}
     /\ last.related = <<>>)
        => /\ last.outcome = "no_match"
           /\ Len(tasks) = last.before

\* C5: a dispatch call for whose window no worker is available does not
\* fail: it ends with the "no match" outcome.
C5_NoAvailableWorkerEndsNoMatch ==
    (last.op = "dispatch" /\ last.avail = {}) => last.outcome = "no_match"

\* C6: a worker flagged available is left out of the available set of a
\* dispatch with window [start, end) exactly when one of its in-progress
\* rows has start_time < end and end_time > start; a window that only
\* touches the new one, and a row in another status, leave the worker in.
C6_ExcludedIffOverlappingInProgress ==
    last.op = "dispatch" =>
        /\ last.avail \subseteq last.flagged
        /\ \A w \in last.flagged :
              w \notin last.avail <=>
                  \E i \in 1..last.before :
                      /\ tasks[i].worker = w
                      /\ tasks[i].status = StatusInProgress
                      /\ tasks[i].start_time < last.end
                      /\ tasks[i].end_time > last.start

\* C6, its case: one worker's in-progress row ends where the new window
\* starts and the worker is available, another's overlaps and it is not.
C6_TouchingKeptOverlappingExcluded ==
    /\ last.op = "dispatch"
    /\ \E i \in 1..last.before :
          /\ tasks[i].status = StatusInProgress
          /\ tasks[i].end_time = last.start
          /\ tasks[i].worker \in last.avail
    /\ \E i \in 1..last.before :
          /\ tasks[i].status = StatusInProgress
          /\ tasks[i].start_time < last.end
          /\ tasks[i].end_time > last.start
          /\ tasks[i].worker \in last.flagged \ last.avail

\* C7: the skill matcher's result holds only available workers whose skills
\* contain the whole title, letter case ignored; it holds at most five
\* workers; it is empty exactly when no available worker's skills contain
\* the title.
C7_SkillMatcherResult ==
    LET hay(w) == Chars(workers[w].skills)
        needle == Chars(last.title)
        contains(w) ==
            \E i \in 0..(Len(hay(w)) - Len(needle)) :
                \A j \in 1..Len(needle) :
                    Lower(hay(w)[i + j]) = Lower(needle[j])
        result == IF last.branch = "skill" THEN SeqRange(last.related) ELSE {}
    IN last.op = "dispatch" =>
          /\ result \subseteq {w \in last.avail : contains(w)}
          /\ Cardinality(result) <= 5
          /\ last.branch = "skill" => Len(last.related) <= 5
          /\ result = {} <=> {w \in last.avail : contains(w)} = {}

\* C7, its case: six available workers match and five are returned, while
\* a title in other letter case than the skills matches too.
C7_FiveOfSixMatchingReturned ==
    /\ last.op = "dispatch"
    /\ last.branch = "skill"
    /\ last.title = "cleaning"
    /\ Cardinality(last.matching) = 6
    /\ Len(last.related) = 5
    /\ \E w \in SeqRange(last.related) : workers[w].skills = "Cleaning"

\* C8: the skill matcher returns the first five of the matching workers in
\* the order of completed rows descending, then average rating descending,
\* a worker without a rating after the rated workers of the same count.
C8_RankedByCompletedThenRating ==
    LET rel == last.related
        higher(a, b) ==
            /\ RatingCount(tasks, a) > 0
            /\ RatingCount(tasks, b) > 0 =>
                  RatingSum(tasks, a) * RatingCount(tasks, b)
                      > RatingSum(tasks, b) * RatingCount(tasks, a)
        before(a, b) ==
            \/ TasksCompleted(tasks, a) > TasksCompleted(tasks, b)
            \/ /\ TasksCompleted(tasks, a) = TasksCompleted(tasks, b)
               /\ higher(a, b)
    IN (last.op = "dispatch" /\ last.branch = "skill") =>
          /\ SeqRange(rel) \subseteq last.matching
          /\ Cardinality(SeqRange(rel)) = Len(rel)
          /\ Len(rel) = IF Cardinality(last.matching) < 5
                        THEN Cardinality(last.matching) ELSE 5
          /\ \A i \in DOMAIN rel, j \in DOMAIN rel :
                i < j => ~before(rel[j], rel[i])
          /\ \A w \in last.matching \ SeqRange(rel), i \in DOMAIN rel :
                ~before(w, rel[i])

\* C8, its case: among six matching workers one with more completed rows
\* and a lower average precedes one with fewer and a higher average, and a
\* worker without a rating follows a rated one of the same count.
C8_MoreCompletedPrecedesBetterRated ==
    LET rel == last.related
    IN /\ last.op = "dispatch"
       /\ last.branch = "skill"
       /\ Cardinality(last.matching) = 6
       /\ \E i \in DOMAIN rel, j \in DOMAIN rel :
             /\ i < j
             /\ TasksCompleted(tasks, rel[i]) > TasksCompleted(tasks, rel[j])
             /\ RatingCount(tasks, rel[i]) > 0
             /\ RatingCount(tasks, rel[j]) > 0
             /\ RatingSum(tasks, rel[i]) * RatingCount(tasks, rel[j])
                    < RatingSum(tasks, rel[j]) * RatingCount(tasks, rel[i])
       /\ \E i \in DOMAIN rel, j \in DOMAIN rel :
             /\ i < j
             /\ TasksCompleted(tasks, rel[i]) = TasksCompleted(tasks, rel[j])
             /\ RatingCount(tasks, rel[i]) > 0
             /\ RatingCount(tasks, rel[j]) = 0

\* C9 as the specification words it: with the title "need cleaning help"
\* the skill matcher selects the available workers whose skills are
\* "cleaning" or "cleaning, cooking".
C9_PhraseTitleSelectsKeywordWorkers ==
    (last.op = "dispatch" /\ last.title = "need cleaning help") =>
        \A w \in last.avail :
            workers[w].skills \in {"cleaning", "cleaning, cooking"} =>
                last.branch = "skill" /\ w \in last.matching

\* C9: a worker matches when its skills contain the whole title: the title
\* "cleaning" matches every available worker whose skills are "cleaning" or
\* "cleaning, cooking", the title "need cleaning help" matches none of them.
C9_TitleInsideSkillsMatches ==
    LET keyword == {w \in last.avail :
                       workers[w].skills \in {"cleaning", "cleaning, cooking"}}
    IN last.op = "dispatch" =>
          /\ last.title = "cleaning" => keyword \subseteq last.matching
          /\ (last.title = "cleaning" /\ keyword # {}) => last.branch = "skill"
          /\ last.title = "need cleaning help" =>
                last.matching = {} /\ last.branch = "similar"

\* C9, its case: both workers are available, the title is the longer
\* phrase, and the call went to the similarity recommender.
C9_PhraseTitleFallsBack ==
    /\ last.op = "dispatch"
    /\ last.title = "need cleaning help"
    /\ \E w \in last.avail : workers[w].skills = "cleaning"
    /\ \E w \in last.avail : workers[w].skills = "cleaning, cooking"
    /\ last.matching = {}
    /\ last.branch = "similar"
    /\ last.outcome = "created"

C11_TerminalStatusesStay ==
    [][\A pk \in DOMAIN tasks :
          tasks[pk].status
                  \in {StatusCompleted, StatusRejected, StatusVanished}
              => tasks'[pk].status = tasks[pk].status]_vars

\* C12: a status update to in-progress that reaches a row whose status is
\* not requested is refused and leaves every row as it was.
C12_AcceptOfNonRequestedRefused ==
    [][(/\ steps' # steps
        /\ last'.op = "update"
        /\ last'.posted = StatusInProgress
        /\ last'.pk \in DOMAIN tasks
        /\ tasks[last'.pk].status # StatusRequested)
           => /\ last'.outcome \in {"error", "invalid"}
              /\ tasks' = tasks]_vars

(***************************************************************************)
(* The stepwise dispatch specification: one dispatch whose saves           *)
(* interleave with status updates and profile changes of the workers.      *)
(***************************************************************************)
StepsStep(A) == steps < MaxSteps /\ A /\ Observe

NextSteps ==
    \/ \E draft \in LifeDrafts : DispatchBegin(draft) /\ Observe
    \/ DispatchRow /\ Observe
    \/ DispatchEnd /\ Observe
    \/ \E pk \in DOMAIN tasks, u \in WorkerIds, posted \in Posted,
          f \in BOOLEAN : StepsStep(UpdateRefused(pk, u, posted, f))
    \/ \E pk \in DOMAIN tasks, u \in WorkerIds, posted \in Posted,
          f \in BOOLEAN : StepsStep(UpdateAccept(pk, u, posted, f))
    \/ \E pk \in DOMAIN tasks, u \in WorkerIds, posted \in Posted,
          f \in BOOLEAN : StepsStep(UpdateOther(pk, u, posted, f))
    \/ \E w \in WorkerIds, b \in BOOLEAN :
          StepsStep(WorkerUpdate(w, workers[w].skills, b))

SpecSteps == Init /\ [][NextSteps]_vars

\* C13: at no moment of a dispatch is a part of its rows in the store: the
\* rows carrying the identifier of the call are none or one per candidate.
C13_DispatchAllOrNothing ==
    DispatchId \in DOMAIN reqs =>
        LET q == reqs[DispatchId]
            n == Cardinality({i \in DOMAIN tasks :
                                 tasks[i].request_id = q.rid})
        IN q.rid # NULL => n = 0 \/ n = Len(q.related)

\* C14: an acceptance through the status update sets to vanished the rows of
\* the same dispatch that are still requested and leaves the status of every
\* other row, a row without request identifier included, as it was.
C14_AcceptTouchesOnlyOwnGroup ==
    [][(/\ steps' # steps
        /\ last'.op = "update"
        /\ last'.posted = StatusInProgress
        /\ last'.outcome = "saved")
           => \A i \in DOMAIN tasks \ {last'.pk} :
                 IF /\ tasks[i].request_id # NULL
                    /\ tasks[i].request_id = tasks[last'.pk].request_id
                    /\ tasks[i].status = StatusRequested
                 THEN tasks'[i].status = StatusVanished
                 ELSE tasks'[i].status = tasks[i].status]_vars

(***************************************************************************)
(* The recommender specification: pearson_correlation_coefficient called   *)
(* once on a store of completed rows, with any worker as the seed.         *)
(***************************************************************************)
\* similarities: the coefficient of every available worker but the seed.
Similarities(T, avail, seed) ==
    [w \in Candidates(avail, seed) |-> SimilarityOf(T, seed, w)]

RecommendRecord(seed, avail, outcome, related, sims) ==
    [NoOp EXCEPT !.op = "recommend", !.outcome = outcome, !.seed = seed,
                 !.avail = avail, !.related = related,
                 !.similarities = sims, !.before = Len(tasks)]

\* The call returns the first n of the sorted workers.
RecommendReturn(seed, avail, n) ==
    /\ ~PearsonFails(tasks, avail, seed)
    /\ last' = RecommendRecord(seed, avail, "returned",
                               TopSimilarWorkers(tasks, avail, seed, n),
                               Similarities(tasks, avail, seed))
    /\ UNCHANGED <<workers, tasks, nextRequest, reqs>>
    /\ steps' = steps + 1

\* A rating of None in the arithmetic raises TypeError.
RecommendRaise(seed, avail, n) ==
    /\ PearsonFails(tasks, avail, seed)
    /\ last' = RecommendRecord(seed, avail, "error", <<>>, <<>>)
    /\ UNCHANGED <<workers, tasks, nextRequest, reqs>>
    /\ steps' = steps + 1

pearson_correlation_coefficient(seed, avail, n) ==
    \/ RecommendReturn(seed, avail, n)
    \/ RecommendRaise(seed, avail, n)

PearsonWorkers ==
    [w \in 1..7 |-> WorkerRow("cleaning", 2000, TRUE)]

PearsonCustomers == {1, 2}

\* The ratings of the drawn histories; None is a completed row not yet rated.
\* With two customers and these ratings the means are halves, and the
\* doubles the code computes compare (greater, equal, zero) as the exact
\* quotients do; the doubles of other histories can differ in the last bit.
PearsonRatings == {NULL, 2, 3, 4, 5}

\* Every rating history: some of the customers, each with a rating.
RatingHistories ==
    UNION {[S -> PearsonRatings] : S \in SUBSET PearsonCustomers}

\* The completed rows of worker w that give it the rating history h.
RECURSIVE HistoryRows(_, _, _)
HistoryRows(w, h, S) ==
    IF S = {} THEN <<>>
    ELSE <<HistoryRow(PearsonWorkers, w, StatusCompleted, <<0, 7200>>,
                      SetMin(S), h[SetMin(S)])>>
             \o HistoryRows(w, h, S \ {SetMin(S)})

\* The rows of workers 3 to 7: rows that are not completed and a later row
\* of a customer already rated do not enter a history.
PearsonBase ==
    LET W == PearsonWorkers
    IN
    <<HistoryRow(W, 3, StatusCompleted, <<0, 7200>>, 1, 4),
      HistoryRow(W, 3, StatusCompleted, <<0, 7200>>, 2, 2),
      HistoryRow(W, 3, StatusCompleted, <<0, 7200>>, 2, 5),
      HistoryRow(W, 4, StatusInProgress, <<0, 7200>>, 1, 5),
      HistoryRow(W, 5, StatusCompleted, <<0, 7200>>, 1, 5),
      HistoryRow(W, 6, StatusCompleted, <<0, 7200>>, 1, 2),
      HistoryRow(W, 6, StatusCompleted, <<0, 7200>>, 2, 5),
      HistoryRow(W, 7, StatusCompleted, <<0, 7200>>, 1, 5),
      HistoryRow(W, 7, StatusCompleted, <<0, 7200>>, 2, 4)>>

PearsonHistories ==
    {PearsonBase \o HistoryRows(1, h1, DOMAIN h1)
                 \o HistoryRows(2, h2, DOMAIN h2) :
        h1 \in RatingHistories, h2 \in RatingHistories}

InitPearson ==
    \E h \in PearsonHistories : InitStore(PearsonWorkers, h)

\* The available workers handed to the recommender: all, or all but one.
PearsonAvail == {1..7, 1..6}

NextPearson ==
    \/ \E seed \in 1..3, avail \in PearsonAvail :
          OneStep(RecommendReturn(seed, avail, TopN))
    \/ \E seed \in 1..3, avail \in PearsonAvail :
          OneStep(RecommendRaise(seed, avail, TopN))

SpecPearson == InitPearson /\ [][NextPearson]_vars

\* C15: the similarity of a candidate is num / sqrt(d1 * d2), where over the
\* customers S rated by both the seed and the candidate num sums the
\* products of the two deviations, d1 the squares of the seed's and d2 the
\* squares of the candidate's, every deviation taken from the mean of all
\* the candidate's ratings: similarity^2 * d1 * d2 = num^2 with the sign of
\* num.  The deviations are written n times over, n the number of the
\* candidate's ratings, which leaves the quotient as it is.
C15_SimilarityUsesCandidateMean ==
    (last.op = "recommend" /\ last.outcome = "returned") =>
        \A w \in last.avail \ {last.seed} :
           LET rs == WorkerRatings(tasks, last.seed)
               rc == WorkerRatings(tasks, w)
               S == DOMAIN rs \cap DOMAIN rc
               n == Cardinality(DOMAIN rc)
               total == SumOver(rc, DOMAIN rc)
               num == SumOver([c \in S |-> (n * rs[c] - total)
                                               * (n * rc[c] - total)], S)
               d1 == SumOver([c \in S |-> (n * rs[c] - total)
                                              * (n * rs[c] - total)], S)
               d2 == SumOver([c \in S |-> (n * rc[c] - total)
                                              * (n * rc[c] - total)], S)
               sim == last.similarities[w]
           IN (d1 # 0 /\ d2 # 0) =>
                 /\ sim.den > 0
                 /\ sim.num * sim.num * d1 * d2 = num * num * sim.den
                 /\ (sim.num > 0) = (num > 0)
                 /\ (sim.num < 0) = (num < 0)

\* C15, its case: the seed rated 5 and 3 and the candidate 4 and 2 by the
\* same two customers; the candidate's mean is 3, so num = 2, d1 = 4 and
\* d2 = 2 (with n = 2: 4 * 2, 4 * 4 and 4 * 2), where each worker's own mean
\* would give num = 2, d1 = 2, d2 = 2.
C15_SeedFiveThreeCandidateFourTwo ==
    /\ last.op = "recommend"
    /\ last.outcome = "returned"
    /\ WorkerRatings(tasks, last.seed) = (1 :> 5) @@ (2 :> 3)
    /\ 3 \in DOMAIN last.similarities
    /\ WorkerRatings(tasks, 3) = (1 :> 4) @@ (2 :> 2)
    /\ last.similarities[3] = [num |-> 4 * 2, den |-> (4 * 4) * (4 * 2)]

\* C16: a candidate's similarity is 0 whenever the sum of the squared
\* deviations of the seed or of the candidate over the shared customers is
\* 0, as it is when they share no customer or the seed has no completed row;
\* the quotient is taken over a positive product only, and a call fails only
\* on a rating of None.
C16_ZeroTermGivesZero ==
    /\ (last.op = "recommend" /\ last.outcome = "returned") =>
          \A w \in last.avail \ {last.seed} :
             LET rs == WorkerRatings(tasks, last.seed)
                 rc == WorkerRatings(tasks, w)
                 S == DOMAIN rs \cap DOMAIN rc
                 n == Cardinality(DOMAIN rc)
                 total == SumOver(rc, DOMAIN rc)
                 d1 == SumOver([c \in S |-> (n * rs[c] - total)
                                                * (n * rs[c] - total)], S)
                 d2 == SumOver([c \in S |-> (n * rc[c] - total)
                                                * (n * rc[c] - total)], S)
                 sim == last.similarities[w]
             IN /\ sim.den > 0
                /\ (DOMAIN rs = {} \/ S = {} \/ d1 = 0 \/ d2 = 0) =>
                      sim = [num |-> 0, den |-> 1]
    /\ (last.op = "recommend" /\ last.outcome = "error") =>
          \E i \in DOMAIN tasks :
             tasks[i].status = StatusCompleted /\ tasks[i].rating = NULL

\* C16, its case: of two candidates with completed rows one shares no
\* customer with the seed and one shares a customer but has a single rating,
\* its own mean; both get 0.
C16_NoSharedCustomerAndNoVariance ==
    /\ last.op = "recommend"
    /\ last.outcome = "returned"
    /\ \E a \in DOMAIN last.similarities, b \in DOMAIN last.similarities :
          LET rs == WorkerRatings(tasks, last.seed)
              ra == WorkerRatings(tasks, a)
              rb == WorkerRatings(tasks, b)
          IN /\ DOMAIN ra # {}
             /\ DOMAIN rs \cap DOMAIN ra = {}
             /\ last.similarities[a] = [num |-> 0, den |-> 1]
             /\ Cardinality(DOMAIN rb) = 1
             /\ DOMAIN rb \subseteq DOMAIN rs
             /\ \E c \in DOMAIN rb : rs[c] # rb[c]
             /\ last.similarities[b] = [num |-> 0, den |-> 1]

C18_SortedBySimilarityCutToFive ==
    LET rel == last.related
        cands == last.avail \ {last.seed}
        sim == last.similarities
        before(a, b) ==
            \/ SimGreater(sim[a], sim[b])
            \/ (~SimGreater(sim[b], sim[a]) /\ a < b)
    IN (last.op = "recommend" /\ last.outcome = "returned") =>
          /\ DOMAIN sim = cands
          /\ SeqRange(rel) \subseteq cands
          /\ last.seed \notin SeqRange(rel)
          /\ Cardinality(SeqRange(rel)) = Len(rel)
          /\ Len(rel) = IF Cardinality(cands) < 5
                        THEN Cardinality(cands) ELSE 5
          /\ \A i \in DOMAIN rel, j \in DOMAIN rel :
                i < j => before(rel[i], rel[j])
          /\ \A w \in cands \ SeqRange(rel), i \in DOMAIN rel :
                before(rel[i], w)

\* C18, its case: six candidates cut to five, among the five a worker of
\* higher similarity and higher primary key before one of lower similarity,
\* and two workers of equal similarity in the order of their primary keys.
C18_SixCandidatesCutWithTie ==
    LET rel == last.related
        sim == last.similarities
    IN /\ last.op = "recommend"
       /\ last.outcome = "returned"
       /\ Cardinality(last.avail \ {last.seed}) = 6
       /\ Len(rel) = 5
       /\ \E i \in DOMAIN rel, j \in DOMAIN rel :
             i < j /\ rel[i] > rel[j] /\ SimGreater(sim[rel[i]], sim[rel[j]])
       /\ \E i \in DOMAIN rel, j \in DOMAIN rel :
             /\ i < j
             /\ rel[i] < rel[j]
             /\ sim[rel[i]] # sim[rel[j]]
             /\ ~SimGreater(sim[rel[i]], sim[rel[j]])
             /\ ~SimGreater(sim[rel[j]], sim[rel[i]])

\* C19: a dispatch leaves behind exactly one new row per candidate, in the
\* candidates' order, at most five rows and no other row; each row has the
\* draft's title, description, window, location and customer, the candidate
\* as its worker, the candidate's hourly rate, and neither a total cost nor
\* a rating.
C19_OneRowPerCandidate ==
    (last.op = "dispatch" /\ last.outcome # "error") =>
        /\ Len(tasks) = last.before + Len(last.related)
        /\ Len(last.related) <= 5
        /\ \A i \in DOMAIN last.related :
              LET row == tasks[last.before + i]
              IN /\ row.worker = last.related[i]
                 /\ row.hourly_rate = workers[last.related[i]].hourly_rate
                 /\ row.title = last.title
                 /\ row.description = "flat"
                 /\ row.location = "ktm"
                 /\ row.customer = last.customer
                 /\ row.start_time = last.start
                 /\ row.end_time = last.end
                 /\ row.total_cost = NULL
                 /\ row.rating = NULL

\* C20: every change of a row's status is requested -> in-progress,
\* requested -> rejected, in-progress -> completed, or requested -> vanished
\* as the effect of the acceptance of another row; no row goes from
\* requested to completed, from in-progress to rejected, or back to
\* requested.
C20_OnlyDocumentedTransitions ==
    [][\A pk \in DOMAIN tasks :
          tasks'[pk].status # tasks[pk].status =>
              \/ /\ tasks[pk].status = StatusRequested
                 /\ tasks'[pk].status \in {StatusInProgress, StatusRejected}
              \/ /\ tasks[pk].status = StatusInProgress
                 /\ tasks'[pk].status = StatusCompleted
              \/ /\ tasks[pk].status = StatusRequested
                 /\ tasks'[pk].status = StatusVanished
                 /\ last'.op = "update"
                 /\ last'.posted = StatusInProgress
                 /\ last'.outcome = "saved"
                 /\ last'.pk # pk]_vars

(***************************************************************************)
(* The status update specification: stores of requested rows, then status *)
(* updates by either worker and approvals of a new hourly rate.            *)
(***************************************************************************)
UpdateDrafts == DraftsOf({1}, {"cleaning"}, {<<0, 1200>>})

\* The stores: a request sent to both workers and a later request sent to
\* worker 1; a row that has no worker.
UpdateStores ==
    LET W == InitWorkers
        group(d) == <<NewRow(d, W, 1, 1), NewRow(d, W, 2, 1),
                      NewRow(d, W, 1, 2)>>
    IN {group(d) : d \in UpdateDrafts}
           \cup {<<DraftRow(d)>> : d \in UpdateDrafts}

InitUpdates == \E T \in UpdateStores : InitStore(InitWorkers, T)

NextUpdates ==
    \/ \E pk \in DOMAIN tasks, u \in WorkerIds, posted \in Posted,
          f \in BOOLEAN : LifeStep(UpdateRefused(pk, u, posted, f))
    \/ \E pk \in DOMAIN tasks, u \in WorkerIds, posted \in Posted,
          f \in BOOLEAN : LifeStep(UpdateAccept(pk, u, posted, f))
    \/ \E pk \in DOMAIN tasks, u \in WorkerIds, posted \in Posted,
          f \in BOOLEAN : LifeStep(UpdateOther(pk, u, posted, f))
    \/ \E w \in WorkerIds, r \in Rates : LifeStep(ApproveHourlyRate(w, r))

SpecUpdates == InitUpdates /\ [][NextUpdates]_vars

C22_SoleAvailableWorkerGetsRequest ==
    (/\ last.op = "dispatch"
     /\ Cardinality(last.flagged) = 1
     /\ last.avail = last.flagged)
        => /\ Len(tasks) = last.before + 1
           /\ tasks[Len(tasks)].worker \in last.avail
           /\ tasks[Len(tasks)].hourly_rate
                  = workers[tasks[Len(tasks)].worker].hourly_rate
           /\ tasks[Len(tasks)].request_id # NULL
           /\ tasks[Len(tasks)].request_id = last.request_id

\* C23: the recommender runs only when no available worker's skills contain
\* the title, and its seed is an available worker with the most completed
\* rows and, among the rated workers with as many, the highest average
\* rating; when an available worker matches, every worker the request goes
\* to is a matching one.
C23_SeedIsTopRankedAvailable ==
    LET T == SubSeq(tasks, 1, last.before)
        matches ==
            {w \in last.avail :
                IContains(Chars(workers[w].skills), Chars(last.title))}
    IN last.op = "dispatch" =>
          /\ last.branch = "similar" <=> matches = {}
          /\ matches # {} => SeqRange(last.related) \subseteq matches
          /\ (last.branch = "similar" /\ last.avail # {}) =>
                /\ last.seed \in last.avail
                /\ \A w \in last.avail :
                      /\ TasksCompleted(T, w) <= TasksCompleted(T, last.seed)
                      /\ (/\ TasksCompleted(T, w)
                                = TasksCompleted(T, last.seed)
                          /\ RatingCount(T, w) > 0
                          /\ RatingCount(T, last.seed) > 0)
                            => RatingSum(T, w) * RatingCount(T, last.seed)
                                   <= RatingSum(T, last.seed)
                                          * RatingCount(T, w)

\* C23, its case: a fallback that sent the request out, whose seed has as
\* many completed rows as another available worker and a higher average,
\* while a third available worker has a higher average still and fewer
\* completed rows.
C23_SeedWinsTieOnRating ==
    LET T == SubSeq(tasks, 1, last.before)
    IN /\ last.op = "dispatch"
       /\ last.branch = "similar"
       /\ last.outcome = "created"
       /\ \E a \in last.avail, b \in last.avail :
             /\ TasksCompleted(T, a) = TasksCompleted(T, last.seed)
             /\ a # last.seed
             /\ RatingCount(T, a) > 0
             /\ RatingSum(T, a) * RatingCount(T, last.seed)
                    < RatingSum(T, last.seed) * RatingCount(T, a)
             /\ TasksCompleted(T, b) < TasksCompleted(T, last.seed)
             /\ RatingCount(T, b) > 0
             /\ RatingSum(T, b) * RatingCount(T, last.seed)
                    > RatingSum(T, last.seed) * RatingCount(T, b)

\* C24: no worker is bound to two in-progress rows whose windows overlap
\* (a.start < b.end and a.end > b.start).
C24_NoOverlappingInProgress ==
    \A a \in DOMAIN tasks, b \in DOMAIN tasks :
       (/\ a # b
        /\ tasks[a].worker # NULL
        /\ tasks[a].worker = tasks[b].worker
        /\ tasks[a].status = StatusInProgress
        /\ tasks[b].status = StatusInProgress)
          => ~(/\ tasks[a].start_time < tasks[b].end_time
               /\ tasks[a].end_time > tasks[b].start_time)

\* C25: a row leaves the requested status only at the hands of the worker
\* it was dispatched to: a row that is no longer requested is still bound
\* to the worker it had when it was requested.
C25_OnlyDispatchedWorkerActs ==
    [][\A pk \in DOMAIN tasks :
          (/\ tasks[pk].status = StatusRequested
           /\ tasks'[pk].status
                  \in {StatusInProgress, StatusCompleted, StatusRejected})
             => /\ tasks'[pk].worker = tasks[pk].worker
                /\ last'.user = tasks[pk].worker]_vars

\* C26: a status update that saves completed or rejected changes the status
\* of its row and nothing else: worker, hourly rate, total cost, request id
\* and window stay, whatever the worker's hourly rate has become, and so
\* does every other row.
C26_CompletedRejectedChangeStatusOnly ==
    [][(/\ steps' # steps
        /\ last'.op = "update"
        /\ last'.posted \in {StatusCompleted, StatusRejected}
        /\ last'.outcome \notin {"error", "invalid"})
          => /\ tasks'[last'.pk] =
                    [tasks[last'.pk] EXCEPT !.status = last'.posted]
             /\ \A i \in DOMAIN tasks \ {last'.pk} : tasks'[i] = tasks[i]
             /\ DOMAIN tasks' = DOMAIN tasks
             /\ workers' = workers]_vars

\* C26, its case: a row completed through the status update after its
\* worker's hourly rate was changed; it keeps the rate and the cost of its
\* acceptance, and another row of its worker is still requested.
C26_CompletedKeepsFrozenRate ==
    /\ last.op = "update"
    /\ last.posted = StatusCompleted
    /\ last.outcome = "saved"
    /\ tasks[last.pk].status = StatusCompleted
    /\ tasks[last.pk].hourly_rate # workers[tasks[last.pk].worker].hourly_rate
    /\ tasks[last.pk].total_cost # NULL
    /\ \E i \in DOMAIN tasks \ {last.pk} :
          /\ tasks[i].worker = tasks[last.pk].worker
          /\ tasks[i].status = StatusRequested

\* C27: the recommender returns a list of workers for every store, also
\* when the seed or a candidate has a completed row without a rating for a
\* customer they share.
C27_RecommenderAlwaysReturns ==
    last.op = "recommend" => last.outcome = "returned"

\* C28: when no available worker's skills contain the title and k >= 1
\* workers are available, the request goes to exactly min(5, k - 1) workers,
\* every available worker but the seed being a candidate; the outcome is
\* "no match" only when k <= 1.
C28_FallbackNotifiesAllButSeed ==
    LET k == Cardinality(last.avail)
    IN (/\ last.op = "dispatch"
        /\ last.branch = "similar"
        /\ k >= 1)
          => /\ Len(last.related) = IF k - 1 < 5 THEN k - 1 ELSE 5
             /\ SeqRange(last.related) \subseteq last.avail \ {last.seed}
             /\ last.outcome = (IF k <= 1 THEN "no_match" ELSE "created")

\* C29: a row has a rating only if it is completed; a rating is written
\* only by task_rate, called by the row's customer on a completed row, and
\* a new row has none.
C29_RatedOnlyWhenCompleted ==
    [][/\ \A pk \in DOMAIN tasks' :
             tasks'[pk].rating # NULL => tasks'[pk].status = StatusCompleted
       /\ \A pk \in DOMAIN tasks :
             tasks'[pk].rating # tasks[pk].rating =>
                /\ last'.op = "task_rate"
                /\ last'.pk = pk
                /\ last'.customer = tasks[pk].customer
                /\ tasks[pk].status = StatusCompleted
       /\ \A pk \in DOMAIN tasks' \ DOMAIN tasks :
             tasks'[pk].rating = NULL]_vars

\* C30: a requested row has no total cost; the total cost is written only by
\* the acceptance through the status update, and a row that has one is
\* never requested afterwards.
C30_RequestedHasNoCost ==
    [][/\ \A pk \in DOMAIN tasks' :
             tasks'[pk].status = StatusRequested
                 => tasks'[pk].total_cost = NULL
       /\ \A pk \in DOMAIN tasks :
             tasks'[pk].total_cost # tasks[pk].total_cost =>
                /\ last'.op = "update"
                /\ last'.posted = StatusInProgress
                /\ last'.pk = pk]_vars

====
